---- MODULE Spec2Model ----
(***************************************************************************)
(* Model of src/blockchain_server.py: the Blockchain ledger (chain,        *)
(* current_data, new_block, new_entry, hash, proof_of_work, valid_proof)   *)
(* and the Flask routes /mine, /transactions/new and /chain that drive it. *)
(*                                                                         *)
(* Every HTTP request is served by a thread of its own (app.run, line 164, *)
(* serves threaded), and the module-level `blockchain` object (line 101)   *)
(* is shared by all of them without a lock.  A request is therefore a      *)
(* process whose steps are the reads and writes of the shared object, in   *)
(* the order the code evaluates them; steps of different requests          *)
(* interleave.  Python lists are objects with identity: block['data'] and  *)
(* self.current_data can name the same list, so lists live in a heap and   *)
(* are referred to by their id.                                            *)
(***************************************************************************)
EXTENDS Integers, Sequences, FiniteSets

\* Largest last_proof handed to proof_of_work on its own.
MaxLastProof == 120
\* Longest list of entries in a block handed to hash() on its own.
MaxData == 2
\* Number of requests the service receives in a run.
NumRequests == 3
\* Largest number of requests being served at the same time.
MaxInFlight == 2
\* Largest value the wall clock, time(), reaches.
MaxTime == 1

VARIABLES
    chain,          \* self.chain: sequence of blocks
    heap,           \* the list objects: heap[id] is the content of list id
    current_data,   \* self.current_data: id of the pending list
    now,            \* the last value time() returned
    pc,             \* pc[t]: where request t stands in its handler
    loc,            \* loc[t]: the locals of request t
    resp,           \* the response sent last
    accepted,       \* accepted[e]: how many times new_entry appended e
    hinted,         \* the <<entry, index>> pairs new_entry has returned
    calls,          \* the entries new_entry appended, in the order of the calls
    probe           \* dicts handed to hash() directly, and the digests returned

vars ==
    <<chain, heap, current_data, now, pc, loc, resp, accepted, hinted, calls,
      probe>>

Threads == 1..NumRequests

\* The entries clients send (owner, stamp, year).
Entries ==
    { [owner |-> "Alice", stamp |-> "Penny Black", year |-> 1840],
      [owner |-> "Bob", stamp |-> "Inverted Jenny", year |-> 1918] }

NoEntry == [owner |-> "", stamp |-> "", year |-> 0]

\* new_transaction, line 141: required = ['owner', 'stamp', 'year']
Required == {"owner", "stamp", "year"}

\* The JSON objects clients post: an entry with any of its fields left out.
Bodies ==
    { [k \in K |-> e[k]] : e \in Entries, K \in SUBSET Required }

----------------------------------------------------------------------------
(* Text and digests *)

\* str(n) of a non-negative int: its decimal digits, most significant first.
RECURSIVE Str(_)
Str(n) == IF n < 10 THEN <<n>> ELSE Str(n \div 10) \o <<n % 10>>

\* hashlib.sha256(text).hexdigest()[:4] for a text of decimal digits: the
\* four leading hex digits of the digest.  SHA-256 is replaced by a small
\* mixing function of the text (a polynomial hash modulo 4 rendered as four
\* hex digits), so that the search of proof_of_work ends after a few
\* candidates; it keeps what the code relies on, that the digest is a fixed
\* function of the text alone.
RECURSIVE Mix(_, _)
Mix(h, text) ==
    IF text = <<>> THEN h
    ELSE Mix((h * 3 + Head(text)) % 4, Tail(text))

sha256_head(text) ==
    LET v == Mix(3, text)
    IN  <<(v \div 4096) % 16, (v \div 256) % 16, (v \div 16) % 16, v % 16>>

\* hashlib.sha256(text).hexdigest() used as a block's fingerprint: SHA-256
\* is taken as collision free, so the digest is identified with the text
\* it was computed from.
sha256_hexdigest(text) == <<"sha256", text>>

\* The keys of the dicts the ledger serialises, in the order Python's string
\* comparison puts them.
KeyOrder ==
    << "data", "index", "owner", "previous_hash", "proof", "stamp",
       "timestamp", "year" >>

Rank(key) == CHOOSE i \in DOMAIN KeyOrder : KeyOrder[i] = key

\* sorted(items) by key, the keys of a dict being distinct: the item in
\* place n is the one with n - 1 keys before its own.
SortItems(items) ==
    [n \in 1..Len(items) |->
        items[CHOOSE i \in DOMAIN items :
                Cardinality({j \in DOMAIN items :
                               Rank(items[j][1]) < Rank(items[i][1])}) = n - 1]]

\* A json.dumps that writes the keys in the order they were inserted.
json_dumps_unsorted(items) == items

\* json.dumps(d, sort_keys=True) of a dict d given as its <<key, value>>
\* items in insertion order (the values already written out): the items in
\* the order of their keys.
json_dumps(items) == SortItems(items)

\* An entry as new_entry builds it, lines 46-50, written out.
DumpsEntry(e) ==
    json_dumps(<< <<"owner", e.owner>>, <<"stamp", e.stamp>>, <<"year", e.year>> >>)

\* A list of entries written out: a JSON array keeps the order of the list.
DumpsList(entries) == [i \in 1..Len(entries) |-> DumpsEntry(entries[i])]

\* The items of a block in the order new_block inserts them, lines 26-32.
BlockItems(index, timestamp, entries, proof, previous_hash) ==
    << <<"index", index>>,
       <<"timestamp", timestamp>>,
       <<"data", DumpsList(entries)>>,
       <<"proof", proof>>,
       <<"previous_hash", previous_hash>> >>

\* json.dumps(block, sort_keys=True) with the lists as they are in heap hp.
Dumps(block, hp) ==
    json_dumps(BlockItems(block.index, block.timestamp, hp[block.data],
                          block.proof, block.previous_hash))

\* Blockchain.hash, lines 61-62, of a dict given as its items.
DictHash(items) == sha256_hexdigest(json_dumps(items))

\* Blockchain.hash
HashIn(block, hp) == sha256_hexdigest(Dumps(block, hp))

hash(block) == HashIn(block, heap)

\* Blockchain.valid_proof
valid_proof(last_proof, proof) ==
    LET guess == Str(last_proof) \o Str(proof)
        guess_hash == sha256_head(guess)
    IN  guess_hash = <<0, 0, 0, 0>>

\* Blockchain.last_block
last_block == chain[Len(chain)]

----------------------------------------------------------------------------
(* Initial state: Blockchain.__init__ *)

\* An __init__ that passes '0' as the first block's previous_hash.
GenesisPreviousHashZero == <<"0">>

\* The previous_hash __init__ passes for the first block: the string '1'.
GenesisPreviousHash == <<"1">>

\* The proof __init__ passes for the first block.
GenesisProof == 100

NoLocals ==
    [ kind |-> "none", entry |-> NoEntry, ref |-> 0,
      last_proof |-> 0, proof |-> 0,
      index |-> 0, timestamp |-> 0, data |-> 0, previous_hash |-> <<>>,
      snap |-> <<>>, during |-> {}, pos |-> 0,
      complete |-> FALSE, length |-> 0 ]

\* A response: the route, the status, whether the request body held the
\* three required fields (for /transactions/new), and the JSON fields.
NoResponse ==
    [ route |-> "", status |-> 0, complete |-> FALSE, entry |-> NoEntry,
      index |-> 0, transactions |-> <<>>, proof |-> 0, previous_hash |-> <<>>,
      chain |-> <<>>, length |-> 0 ]

\* The state of probe when hash() is not called directly.
NoProbe == [phase |-> "none", a |-> <<>>, b |-> <<>>, ha |-> <<>>, hb |-> <<>>,
            ha2 |-> <<>>]

\* __init__: chain = [], current_data = [] (list 1), then
\* new_block(previous_hash='1', proof=100), which takes list 1 as the
\* block's data and leaves a new empty list (list 2) as current_data.
\* The ledger __init__ leaves: the first block, sealed with the empty list
\* 1, and a new empty pending list 2; nothing answered or accepted yet.
Fresh ==
    /\ chain = << [ index |-> 1, timestamp |-> 0, data |-> 1,
                    proof |-> GenesisProof,
                    previous_hash |-> GenesisPreviousHash ] >>
    /\ heap = << <<>>, <<>> >>
    /\ current_data = 2
    /\ now = 0
    /\ resp = NoResponse
    /\ accepted = [e \in Entries |-> 0]
    /\ hinted = {}
    /\ calls = <<>>

Init ==
    /\ Fresh
    /\ pc = [t \in Threads |-> "idle"]
    /\ loc = [t \in Threads |-> NoLocals]
    /\ probe = NoProbe

----------------------------------------------------------------------------
(* Requests *)

\* Requests being served: arrived and not yet answered.
InFlight == Cardinality({t \in Threads : pc[t] \notin {"idle", "done"}})

\* Request t arrives: requests are numbered in the order they arrive, and
\* at most lim are served at the same time.
Arrives(t, lim) ==
    /\ pc[t] = "idle"
    /\ \A u \in Threads : u < t => pc[u] # "idle"
    /\ InFlight < lim

\* The positions of a /mine request between the start of its proof search
\* and the append of its block.
SealWindow ==
    {"pow", "nb_index", "nb_time", "nb_data", "nb_hash", "nb_clear", "nb_append"}

(* GET /mine *)

\* A mine that reads the proof of the first block instead of the last.
MineLastProofFirst == chain[1]["proof"]

\* A mine that searches from the last proof plus the number of pending
\* entries.
MineLastProofPlusPending == last_block["proof"] + Len(heap[current_data])

\* mine, line 120: the proof of the last block.
MineLastProof == last_block["proof"]

\* new_block, line 27: the index of the new block.
NextIndex == Len(chain) + 1

\* A new_block that hashes the first block instead of the last.
PreviousHashFirst == hash(chain[1])

\* new_block, line 31 with previous_hash None: the hash of the last block.
PreviousHash == hash(chain[Len(chain)])

\* new_block, line 33: self.current_data = [] makes a new empty list.
ClearedHeap == Append(heap, <<>>)

\* new_block, lines 26-32: the block built from the locals of request t.
BlockOf(t) ==
    [ index |-> loc[t].index, timestamp |-> loc[t].timestamp,
      data |-> loc[t].data, proof |-> loc[t].proof,
      previous_hash |-> loc[t].previous_hash ]

\* A proof_of_work that starts its search at candidate 1.
FirstCandidateOne == 0 + 1

\* proof_of_work, line 80: proof = 0
FirstCandidate == 0

\* mine, line 120, and proof_of_work, line 80: the request reads the last
\* proof and starts the search at candidate 0.
MineStart(t, lim) ==
    /\ Arrives(t, lim)
    /\ loc' = [loc EXCEPT ![t] =
                 [NoLocals EXCEPT !.kind = "mine",
                                  !.last_proof = MineLastProof,
                                  !.proof = FirstCandidate]]
    /\ pc' = [pc EXCEPT ![t] = "pow"]
    /\ UNCHANGED <<chain, heap, current_data, now, resp, accepted, hinted, calls, probe>>

\* A proof_of_work whose loop tries the same candidate again.
PowNextSame(t) ==
    /\ pc[t] = "pow"
    /\ ~valid_proof(loc[t].last_proof, loc[t].proof)
    /\ UNCHANGED vars

\* proof_of_work, lines 81-82: the candidate fails, the next one is tried.
PowNext(t) ==
    /\ pc[t] = "pow"
    /\ ~valid_proof(loc[t].last_proof, loc[t].proof)
    /\ loc' = [loc EXCEPT ![t].proof = @ + 1]
    /\ UNCHANGED <<chain, heap, current_data, now, pc, resp, accepted, hinted, calls, probe>>

\* proof_of_work, lines 81 and 83: the candidate passes and is returned;
\* mine calls new_block with it (line 122).
PowReturn(t) ==
    /\ pc[t] = "pow"
    /\ valid_proof(loc[t].last_proof, loc[t].proof)
    /\ pc' = [pc EXCEPT ![t] = "nb_index"]
    /\ UNCHANGED <<chain, heap, current_data, now, loc, resp, accepted, hinted, calls, probe>>

\* new_block, line 27: 'index': len(self.chain) + 1
NbIndex(t) ==
    /\ pc[t] = "nb_index"
    /\ loc' = [loc EXCEPT ![t].index = NextIndex]
    /\ pc' = [pc EXCEPT ![t] = "nb_time"]
    /\ UNCHANGED <<chain, heap, current_data, now, resp, accepted, hinted, calls, probe>>

\* new_block, line 28: 'timestamp': time(); the clock does not go back.
NbTime(t) ==
    /\ pc[t] = "nb_time"
    /\ \E ts \in now..MaxTime :
          /\ now' = ts
          /\ loc' = [loc EXCEPT ![t].timestamp = ts]
    /\ pc' = [pc EXCEPT ![t] = "nb_data"]
    /\ UNCHANGED <<chain, heap, current_data, resp, accepted, hinted, calls, probe>>

\* new_block, line 29: 'data': self.current_data, the list itself, not a
\* copy.  snap records what the list held at this moment.
NbData(t) ==
    /\ pc[t] = "nb_data"
    /\ loc' = [loc EXCEPT ![t].data = current_data,
                          ![t].snap = heap[current_data]]
    /\ pc' = [pc EXCEPT ![t] = "nb_hash"]
    /\ UNCHANGED <<chain, heap, current_data, now, resp, accepted, hinted, calls, probe>>

\* new_block, line 31: 'previous_hash': self.hash(self.chain[-1])
NbHash(t) ==
    /\ pc[t] = "nb_hash"
    /\ loc' = [loc EXCEPT ![t].previous_hash = PreviousHash]
    /\ pc' = [pc EXCEPT ![t] = "nb_clear"]
    /\ UNCHANGED <<chain, heap, current_data, now, resp, accepted, hinted, calls, probe>>

\* new_block, line 33: self.current_data = []
NbClear(t) ==
    /\ pc[t] = "nb_clear"
    /\ heap' = ClearedHeap
    /\ current_data' = Len(heap')
    /\ pc' = [pc EXCEPT ![t] = "nb_append"]
    /\ UNCHANGED <<chain, now, loc, resp, accepted, hinted, calls, probe>>

\* new_block, lines 34-35: self.chain.append(block); return block.
\* pos records where in the chain the block went.
\* A new_block that appends its block only if the block holds entries.
NbAppendUnlessEmpty(t) ==
    /\ pc[t] = "nb_append"
    /\ chain' = IF heap[loc[t].data] = <<>> THEN chain
                ELSE Append(chain, BlockOf(t))
    /\ loc' = [loc EXCEPT ![t].pos = Len(chain')]
    /\ pc' = [pc EXCEPT ![t] = "m_resp"]
    /\ UNCHANGED <<heap, current_data, now, resp, accepted, hinted, calls, probe>>

NbAppend(t) ==
    /\ pc[t] = "nb_append"
    /\ chain' = Append(chain, BlockOf(t))
    /\ loc' = [loc EXCEPT ![t].pos = Len(chain) + 1]
    /\ pc' = [pc EXCEPT ![t] = "m_resp"]
    /\ UNCHANGED <<heap, current_data, now, resp, accepted, hinted, calls, probe>>

\* mine, lines 123-130: the response is built from the block; jsonify
\* writes out block['data'] as the list stands now.
MineRespond(t) ==
    /\ pc[t] = "m_resp"
    /\ resp' = [NoResponse EXCEPT
                 !.route = "mine", !.status = 200,
                 !.index = loc[t].index,
                 !.transactions = heap[loc[t].data],
                 !.proof = loc[t].proof,
                 !.previous_hash = loc[t].previous_hash]
    /\ loc' = [loc EXCEPT ![t] = NoLocals]
    /\ pc' = [pc EXCEPT ![t] = "done"]
    /\ UNCHANGED <<chain, heap, current_data, now, accepted, hinted, calls, probe>>

(* POST /transactions/new *)

\* A new_entry that returns the index of the last block itself.
IndexHintLast == last_block["index"]

\* new_entry, line 51: the index the route reports.
IndexHint == last_block["index"] + 1

\* new_transaction, line 142: all(k in values for k in required)
HasRequired(values) == \A k \in Required : k \in DOMAIN values

\* A new_transaction that calls new_entry before it looks at the fields.
AddRejectAfterEntry(t, values, lim) ==
    /\ Arrives(t, lim)
    /\ ~HasRequired(values)
    /\ heap' = [heap EXCEPT ![current_data] = Append(@, NoEntry)]
    /\ resp' = [NoResponse EXCEPT !.route = "add", !.status = 400]
    /\ pc' = [pc EXCEPT ![t] = "done"]
    /\ UNCHANGED <<chain, current_data, now, loc, accepted, hinted, calls, probe>>

\* new_transaction, lines 140-143: a field is missing, the route answers
\* 400 and does not call the ledger.
AddReject(t, values, lim) ==
    /\ Arrives(t, lim)
    /\ ~HasRequired(values)
    /\ resp' = [NoResponse EXCEPT
                 !.route = "add", !.status = 400,
                 !.complete = (Required \subseteq DOMAIN values)]
    /\ pc' = [pc EXCEPT ![t] = "done"]
    /\ UNCHANGED <<chain, heap, current_data, now, loc, accepted, hinted, calls, probe>>

\* new_transaction, lines 140-144, and new_entry, line 46: the request has
\* its three fields; new_entry loads self.current_data, the list it will
\* append to.
AddStart(t, values, lim) ==
    /\ Arrives(t, lim)
    /\ HasRequired(values)
    /\ loc' = [loc EXCEPT ![t] =
                 [NoLocals EXCEPT !.kind = "add",
                                  !.complete = (Required \subseteq DOMAIN values),
                                  !.entry = [owner |-> values["owner"],
                                             stamp |-> values["stamp"],
                                             year |-> values["year"]],
                                  !.ref = current_data]]
    /\ pc' = [pc EXCEPT ![t] = "ne_append"]
    /\ UNCHANGED <<chain, heap, current_data, now, resp, accepted, hinted, calls, probe>>

\* new_entry, lines 46-50: .append({...}) on the list loaded before.
\* A new_entry that puts the entry at the front of the list.
NeAppendFront(t) ==
    /\ pc[t] = "ne_append"
    /\ heap' = [heap EXCEPT ![loc[t].ref] = <<loc[t].entry>> \o @]
    /\ accepted' = [accepted EXCEPT ![loc[t].entry] = @ + 1]
    /\ calls' = Append(calls, loc[t].entry)
    /\ pc' = [pc EXCEPT ![t] = "ne_ret"]
    /\ UNCHANGED <<chain, current_data, now, loc, resp, hinted, probe>>

NeAppend(t) ==
    /\ pc[t] = "ne_append"
    /\ heap' = [heap EXCEPT ![loc[t].ref] = Append(@, loc[t].entry)]
    /\ accepted' = [accepted EXCEPT ![loc[t].entry] = @ + 1]
    /\ calls' = Append(calls, loc[t].entry)
    /\ pc' = [pc EXCEPT ![t] = "ne_ret"]
    /\ UNCHANGED <<chain, current_data, now, loc, resp, hinted, probe>>

\* new_entry, line 51, and new_transaction, lines 145-146: the call
\* returns last_block['index'] + 1 and the route answers 201.  during
\* records, for every /mine request between the start of its search and
\* the append of its block, that this entry was accepted meanwhile.
NeReturn(t) ==
    /\ pc[t] = "ne_ret"
    /\ resp' = [NoResponse EXCEPT
                 !.route = "add", !.status = 201,
                 !.complete = loc[t].complete,
                 !.entry = loc[t].entry,
                 !.index = IndexHint]
    /\ hinted' = hinted \cup {<<loc[t].entry, IndexHint>>}
    /\ loc' = [m \in Threads |->
                 IF m = t THEN NoLocals
                 ELSE IF pc[m] \in SealWindow
                 THEN [loc[m] EXCEPT !.during = @ \cup {loc[t].entry}]
                 ELSE loc[m]]
    /\ pc' = [pc EXCEPT ![t] = "done"]
    /\ UNCHANGED <<chain, heap, current_data, now, accepted, calls, probe>>

(* GET /chain *)

\* jsonify of blockchain.chain: every block written out with its list as
\* it stands.
ChainJson == [i \in 1..Len(chain) |-> Dumps(chain[i], heap)]

\* full_chain, lines 156-159: the response dict is built; 'length' is
\* len(blockchain.chain) now, 'chain' is the list itself.
ChainStart(t, lim) ==
    /\ Arrives(t, lim)
    /\ loc' = [loc EXCEPT ![t] =
                 [NoLocals EXCEPT !.kind = "chain", !.length = Len(chain)]]
    /\ pc' = [pc EXCEPT ![t] = "fc_json"]
    /\ UNCHANGED <<chain, heap, current_data, now, resp, accepted, hinted, calls, probe>>

\* full_chain, line 160: jsonify(response) writes the chain out as it is
\* when the response is serialised.
ChainRespond(t) ==
    /\ pc[t] = "fc_json"
    /\ resp' = [NoResponse EXCEPT
                 !.route = "chain", !.status = 200,
                 !.chain = ChainJson, !.length = loc[t].length]
    /\ loc' = [loc EXCEPT ![t] = NoLocals]
    /\ pc' = [pc EXCEPT ![t] = "done"]
    /\ UNCHANGED <<chain, heap, current_data, now, accepted, hinted, calls, probe>>

----------------------------------------------------------------------------
(* Specifications *)

\* The steps of a request that has arrived.
Step(t) ==
    \/ PowNext(t)
    \/ PowReturn(t)
    \/ NbIndex(t)
    \/ NbTime(t)
    \/ NbData(t)
    \/ NbHash(t)
    \/ NbClear(t)
    \/ NbAppend(t)
    \/ MineRespond(t)
    \/ NeAppend(t)
    \/ NeReturn(t)
    \/ ChainRespond(t)

\* The arrival of request t, of any kind.
Arrival(t, lim) ==
    \/ MineStart(t, lim)
    \/ \E values \in Bodies : AddStart(t, values, lim)
    \/ \E values \in Bodies : AddReject(t, values, lim)
    \/ ChainStart(t, lim)

\* Requests overlap: up to MaxInFlight are served at the same time.
Next ==
    \E t \in Threads :
        \/ Arrival(t, MaxInFlight)
        \/ Step(t)

Spec == Init /\ [][Next]_vars

\* Requests executed one after another: a request arrives only when the
\* one before it has been answered.
SeqNext ==
    \E t \in Threads :
        \/ Arrival(t, 1)
        \/ Step(t)

SeqSpec == Init /\ [][SeqNext]_vars

\* Fair scheduling: a request that has arrived and can take a step is not
\* left waiting for ever.
FairSpec == Spec /\ \A t \in Threads : WF_vars(Step(t))

\* proof_of_work on its own: request 1 is a /mine whose search was handed
\* any last_proof up to MaxLastProof.
PowInit ==
    /\ Fresh
    /\ pc = [t \in Threads |-> IF t = 1 THEN "pow" ELSE "idle"]
    /\ \E last_proof \in 0..MaxLastProof :
          loc = [t \in Threads |->
                   IF t = 1
                   THEN [NoLocals EXCEPT !.kind = "mine",
                                         !.last_proof = last_proof,
                                         !.proof = FirstCandidate]
                   ELSE NoLocals]
    /\ probe = NoProbe

PowSearch == PowNext(1) \/ PowReturn(1)

PowSpec == PowInit /\ [][PowSearch]_vars

\* hash() on its own.  The lists of entries a block can hold, up to MaxData
\* entries long.
EntryLists == UNION { [1..n -> Entries] : n \in 0..MaxData }

\* Orders in which the five items of a block dict are inserted: the order
\* of new_block, its reverse, and a shuffle.
ConstructionOrders == { <<1, 2, 3, 4, 5>>, <<5, 4, 3, 2, 1>>, <<3, 1, 5, 2, 4>> }

\* The dicts handed to hash(): blocks 2 and 3 with any timestamp and list
\* of entries, built in any of the construction orders.
ProbeDicts ==
    { [i \in 1..5 |->
          BlockItems(index, timestamp, entries, 2, GenesisPreviousHash)[order[i]]] :
        index \in 2..3, timestamp \in 0..MaxTime, entries \in EntryLists,
        order \in ConstructionOrders }

HashInit ==
    /\ Fresh
    /\ pc = [t \in Threads |-> "idle"]
    /\ loc = [t \in Threads |-> NoLocals]
    /\ \E a \in ProbeDicts, b \in ProbeDicts :
          probe = [NoProbe EXCEPT !.phase = "built", !.a = a, !.b = b]

\* hash(a) and hash(b)
HashFirst ==
    /\ probe.phase = "built"
    /\ probe' = [probe EXCEPT !.phase = "hashed",
                              !.ha = DictHash(probe.a),
                              !.hb = DictHash(probe.b)]
    /\ UNCHANGED <<chain, heap, current_data, now, pc, loc, resp, accepted, hinted, calls>>

\* hash(a) once more, a unchanged
HashAgain ==
    /\ probe.phase = "hashed"
    /\ probe' = [probe EXCEPT !.phase = "again", !.ha2 = DictHash(probe.a)]
    /\ UNCHANGED <<chain, heap, current_data, now, pc, loc, resp, accepted, hinted, calls>>

HashNext == HashFirst \/ HashAgain

HashSpec == HashInit /\ [][HashNext]_vars

----------------------------------------------------------------------------
(* Properties *)

Range(s) == {s[i] : i \in DOMAIN s}

Count(e, s) == Cardinality({i \in DOMAIN s : s[i] = e})

RECURSIVE Sum(_, _)
Sum(f, n) == IF n = 0 THEN 0 ELSE f[n] + Sum(f, n - 1)

\* The pending buffer and the entries of the block at position i.
Pending == heap[current_data]
EntriesAt(i) == heap[chain[i].data]

\* No request is being served.
Quiescent == \A t \in Threads : pc[t] \in {"idle", "done"}

\* No /mine request is inside new_block.
NoSealInProgress ==
    \A t \in Threads :
        pc[t] \notin {"nb_index", "nb_time", "nb_data", "nb_hash", "nb_clear",
                      "nb_append"}

\* C1 (chain integrity, requests one after another): block 1 carries the
\* sentinel '1', and the previous_hash of every block i > 1 is the hash of
\* block i-1 as it stands in the chain.
C1_ChainIntegrity ==
    /\ chain[1].previous_hash = <<"1">>
    /\ \A i \in 2..Len(chain) : chain[i].previous_hash = hash(chain[i - 1])

\* Three blocks, the second of them holding an entry.
C1_Witness ==
    /\ Len(chain) >= 3
    /\ EntriesAt(2) # <<>>
    /\ chain[3].previous_hash = hash(chain[2])

\* C2 (index monotonicity, every reachable state): the block at position i
\* has index i, no index repeats, and the last block's index is the
\* length of the chain.
C2_IndexMonotonic ==
    /\ \A i \in 1..Len(chain) : chain[i].index = i
    /\ \A i, j \in 1..Len(chain) : chain[i].index = chain[j].index => i = j
    /\ last_block.index = Len(chain)

\* C3 (proof validity, requests one after another): every block after the
\* first has a proof that is valid against the proof of the block before
\* it.
C3_ProofValidity ==
    \A i \in 2..Len(chain) : valid_proof(chain[i - 1].proof, chain[i].proof)

\* Three blocks: two searches ran, the second from the proof the first
\* found, which differs from the genesis proof.
C3_Witness ==
    /\ Len(chain) >= 3
    /\ chain[2].proof # chain[1].proof
    /\ valid_proof(chain[2].proof, chain[3].proof)

\* C4 (buffer draining): when new_block has appended its block, the
\* pending buffer is empty and the block's entries are what was pending
\* when new_block took the buffer.
C4_BufferDrained ==
    [][\A t \in Threads :
          (pc[t] = "nb_append" /\ pc'[t] = "m_resp") =>
              /\ heap'[current_data'] = <<>>
              /\ heap'[chain'[Len(chain')].data] = loc[t].snap]_vars

\* C5 (concurrent mining exclusion): no two blocks share an index, the
\* indices have no gap, and every block's previous_hash is the hash of
\* the block directly before it.
C5_MiningExclusion ==
    /\ \A i, j \in 1..Len(chain) : i # j => chain[i].index # chain[j].index
    /\ \A i \in 2..Len(chain) : chain[i].index = chain[i - 1].index + 1
    /\ \A i \in 2..Len(chain) : chain[i].previous_hash = hash(chain[i - 1])

\* How many times entry e occurs in the pending buffer and in the blocks.
Occurrences(e) ==
    Count(e, Pending)
        + Sum([i \in 1..Len(chain) |-> Count(e, EntriesAt(i))], Len(chain))

\* C6 (no entry lost or duplicated): whenever no block is being sealed,
\* every accepted entry is in exactly one place, the pending buffer or the
\* entries of one block.
C6_NoEntryLostOrDuplicated ==
    NoSealInProgress => \A e \in Entries : Occurrences(e) = accepted[e]

\* C7 (sealed blocks immutable, chain append-only): a step changes no
\* field and no entry of a block that is in the chain, and removes none.
C7_SealedImmutable ==
    [][\A i \in 1..Len(chain) :
          /\ i <= Len(chain')
          /\ chain'[i] = chain[i]
          /\ heap'[chain[i].data] = heap[chain[i].data]]_vars

\* C8 (snapshot at seal time): when a /mine request has sealed its block,
\* the block holds every entry whose addEntry call returned between the
\* start of the request's proof search and the append of its block.
C8_SnapshotAtSeal ==
    \A m \in Threads :
        pc[m] = "m_resp" => loc[m].during \subseteq Range(EntriesAt(loc[m].pos))

\* C9 (index hint, requests one after another): addEntry returns the last
\* block's index plus one, and between requests every entry it was
\* returned for is either still pending, with the next block's index as
\* its hint, or in the block whose index is the hint.
C9_IndexHint ==
    Quiescent =>
        /\ resp.status = 201 => resp.index = last_block.index + 1
        /\ \A h \in hinted :
              IF h[2] > Len(chain)
              THEN h[2] = Len(chain) + 1 /\ h[1] \in Range(Pending)
              ELSE h[1] \in Range(EntriesAt(h[2])) /\ chain[h[2]].index = h[2]

\* An entry was added with hint 2, the next mine has completed and
\* answered with block 2 holding that entry.
C9_Witness ==
    /\ Quiescent
    /\ resp.status = 200
    /\ resp.index = 2
    /\ \E h \in hinted : h[2] = 2 /\ h[1] \in Range(resp.transactions)

\* C10 (initial state): before any request the chain is the genesis block
\* alone and the buffer is empty; the genesis block has index 1, no
\* entries, previous_hash '1' and proof 100, and stays the only block
\* carrying the sentinel.
C10_Genesis ==
    /\ (\A t \in Threads : pc[t] = "idle") =>
          Len(chain) = 1 /\ Pending = <<>>
    /\ chain[1].index = 1
    /\ EntriesAt(1) = <<>>
    /\ chain[1].previous_hash = <<"1">>
    /\ chain[1].proof = 100
    /\ \A i \in 2..Len(chain) : chain[i].previous_hash # <<"1">>

\* Requests have run, blocks were sealed and an entry was accepted, and
\* the first block is still the genesis block.
C10_Witness ==
    /\ Len(chain) >= 3
    /\ \E e \in Entries : accepted[e] > 0
    /\ chain[1].proof = 100

C12_ChainReadOnly ==
    [][\A t \in Threads :
          /\ (pc[t] = "idle" /\ pc'[t] = "fc_json") =>
                UNCHANGED <<chain, heap, current_data>>
          /\ (pc[t] = "fc_json" /\ pc'[t] = "done") =>
                /\ resp'.route = "chain" /\ resp'.status = 200
                /\ resp'.chain = ChainJson
                /\ resp'.length = Len(resp'.chain)
                /\ UNCHANGED <<chain, heap, current_data>>
                /\ (resp.route = "chain" /\ resp.chain = ChainJson
                        /\ resp.length = Len(chain)) => resp' = resp
      ]_vars

\* C13 (functional correctness): proof_of_work tries the candidates 0, 1,
\* 2, ... one by one: no candidate below the one being tried is valid,
\* each failed candidate is followed by the next integer, the candidate
\* returned is valid and the least valid one, and no step of the search
\* changes the chain, a list or the buffer.
C13_FirstValidProof ==
    [][\A t \in Threads :
          /\ pc'[t] = "pow" =>
                \A q \in 0..(loc'[t].proof - 1) :
                    ~valid_proof(loc'[t].last_proof, q)
          /\ (pc[t] = "pow" /\ pc'[t] = "pow" /\ loc'[t] # loc[t]) =>
                /\ ~valid_proof(loc[t].last_proof, loc[t].proof)
                /\ loc'[t] = [loc[t] EXCEPT !.proof = @ + 1]
                /\ UNCHANGED <<chain, heap, current_data>>
          /\ (pc[t] = "pow" /\ pc'[t] = "nb_index") =>
                /\ loc'[t] = loc[t]
                /\ valid_proof(loc[t].last_proof, loc[t].proof)
                /\ \A q \in 0..(loc[t].proof - 1) :
                      ~valid_proof(loc[t].last_proof, q)
                /\ UNCHANGED <<chain, heap, current_data>>
      ]_vars

\* A search that was handed last_proof 5 has returned candidate 2 after
\* candidates 0 and 1 failed.
C13_Witness ==
    /\ pc[1] = "nb_index"
    /\ loc[1].last_proof = 5
    /\ loc[1].proof = 2

\* The value a dict holds under a key.
Field(items, key) ==
    items[CHOOSE i \in DOMAIN items : items[i][1] = key][2]

BlockKeys == {"index", "timestamp", "data", "proof", "previous_hash"}

\* The two dicts hold the same value under every key.
SameFields(a, b) == \A key \in BlockKeys : Field(a, key) = Field(b, key)

\* The two dicts differ in the order of their entries and in nothing else.
EntriesReordered(a, b) ==
    /\ \A key \in BlockKeys \ {"data"} : Field(a, key) = Field(b, key)
    /\ Len(Field(a, "data")) = Len(Field(b, "data"))
    /\ \A e \in Range(Field(a, "data")) \cup Range(Field(b, "data")) :
          Count(e, Field(a, "data")) = Count(e, Field(b, "data"))
    /\ Field(a, "data") # Field(b, "data")

\* C14 (determinism of hash): hashing an unchanged dict again gives the
\* same digest; two dicts with the same value under every key (entries in
\* the same order) have the same digest whatever the order their items
\* were inserted in; two dicts that differ only in the order of their
\* entries have different digests.
C14_HashDeterminism ==
    /\ probe.phase = "again" => probe.ha2 = probe.ha
    /\ probe.phase \in {"hashed", "again"} =>
          /\ SameFields(probe.a, probe.b) => probe.ha = probe.hb
          /\ EntriesReordered(probe.a, probe.b) => probe.ha # probe.hb

\* Two dicts with the same fields and two entries, built in different
\* orders, have been hashed.
C14_Witness ==
    /\ probe.phase = "again"
    /\ probe.a # probe.b
    /\ SameFields(probe.a, probe.b)
    /\ Len(Field(probe.a, "data")) = 2

\* C15 (no stale proof): whenever a block is appended, its proof is valid
\* with respect to the proof of the block that is last in the chain at that
\* moment.
C15_NoStaleProof ==
    [][Len(chain') > Len(chain) =>
          valid_proof(last_block.proof, chain'[Len(chain')].proof)]_vars

\* C17 (non-empty chain): the chain always holds a block, and the block
\* last_block returns has the highest index in the chain.
C17_NonEmptyChain ==
    /\ Len(chain) >= 1
    /\ \A i \in 1..Len(chain) : chain[i].index <= last_block.index

\* C16 (termination): under fair scheduling every /mine request that has
\* started comes to answer, so that again and again no /mine request is
\* in progress; a request that answers has appended a block of its own,
\* and the search is left only with a candidate that is valid.
C16_MiningTerminates ==
    /\ []<>(\A t \in Threads : pc[t] \notin SealWindow \cup {"m_resp"})
    /\ [](\A t \in Threads :
            pc[t] = "m_resp" =>
                /\ loc[t].pos \in 1..Len(chain)
                /\ chain[loc[t].pos] = BlockOf(t))
    /\ [](\A t \in Threads :
            pc[t] \in (SealWindow \ {"pow"}) \cup {"m_resp"} =>
                valid_proof(loc[t].last_proof, loc[t].proof))

\* The third /mine request searched from last proof 3 and has appended its
\* block while another request was being served.
C16_Witness ==
    /\ pc[3] = "m_resp"
    /\ loc[3].last_proof = 3
    /\ chain[loc[3].pos] = BlockOf(3)
    /\ InFlight = 2

\* The entries of blocks 1..n, block after block.
RECURSIVE SealedUpTo(_)
SealedUpTo(n) == IF n = 0 THEN <<>> ELSE SealedUpTo(n - 1) \o EntriesAt(n)

\* The entries of the ledger: those of the blocks, then the pending ones.
LedgerEntries == SealedUpTo(Len(chain)) \o Pending

\* C18 (addEntry, requests one after another): the append of new_entry
\* puts its entry at the end of the pending buffer and changes neither the
\* entries buffered before, nor the chain, nor the list of any block; and
\* between requests the entries of the blocks followed by the pending ones
\* are the entries of the calls in the order the calls were made, an entry
\* sent twice being there twice.
C18_AddEntryFrame ==
    [][/\ \A t \in Threads :
            (pc[t] = "ne_append" /\ pc'[t] = "ne_ret") =>
                /\ heap'[current_data] = Append(Pending, loc[t].entry)
                /\ DOMAIN heap' = DOMAIN heap
                /\ \A id \in DOMAIN heap \ {current_data} : heap'[id] = heap[id]
                /\ UNCHANGED <<chain, current_data>>
       /\ Quiescent' => calls' = LedgerEntries'
      ]_vars

\* The same entry was sent twice and the next mine sealed both copies in
\* block 2.
C18_Witness ==
    /\ Quiescent
    /\ Len(chain) = 2
    /\ \E e \in Entries : EntriesAt(2) = <<e, e>> /\ calls = <<e, e>>

\* C19 (sealing is the sole chain mutator): a step changes the chain only
\* if it is the append of a /mine request; that append makes the chain one
\* block longer, whatever the block's list holds, and the request's block
\* the last one; the list of the block is the pending buffer as new_block
\* finds it, empty if the buffer is empty; a /mine request answers only
\* after its append, and the answer carries the index, entries, proof and
\* previous_hash of the block it appended.
C19_SoleChainMutator ==
    [][/\ chain' # chain =>
            \E t \in Threads : pc[t] = "nb_append" /\ pc'[t] = "m_resp"
       /\ \A t \in Threads :
            /\ (pc[t] = "nb_data" /\ pc'[t] # pc[t]) =>
                  /\ loc'[t].data = current_data
                  /\ heap'[loc'[t].data] = Pending
            /\ (pc[t] = "nb_append" /\ pc'[t] # pc[t]) =>
                  /\ pc'[t] = "m_resp"
                  /\ chain' = Append(chain, BlockOf(t))
                  /\ Len(chain') = Len(chain) + 1
                  /\ chain'[Len(chain')] = BlockOf(t)
                  /\ loc'[t].pos = Len(chain')
            /\ (loc[t].kind = "mine" /\ pc'[t] = "done" /\ pc[t] # "done") =>
                  /\ pc[t] = "m_resp"
                  /\ loc[t].pos \in 2..Len(chain)
                  /\ chain[loc[t].pos] = BlockOf(t)
                  /\ resp'.route = "mine" /\ resp'.status = 200
                  /\ resp'.index = chain[loc[t].pos].index
                  /\ resp'.transactions = EntriesAt(loc[t].pos)
                  /\ resp'.proof = chain[loc[t].pos].proof
                  /\ resp'.previous_hash = chain[loc[t].pos].previous_hash
                  /\ chain' = chain
      ]_vars

\* No entry was ever added; the second /mine has answered with block 3,
\* which is the last block and holds no entries.
C19_Witness ==
    /\ calls = <<>>
    /\ Len(chain) = 3
    /\ EntriesAt(3) = <<>>
    /\ resp.route = "mine" /\ resp.status = 200
    /\ resp.index = 3 /\ resp.transactions = <<>>
    /\ last_block.index = 3

\* The least candidate valid with respect to last_proof, among those up
\* to 9 (every last proof has one below 4).
LeastProof(last_proof) ==
    CHOOSE p \in 0..9 :
        /\ valid_proof(last_proof, p)
        /\ \A q \in 0..(p - 1) : ~valid_proof(last_proof, q)

\* The proof of block k in a ledger whose requests do not overlap, whatever
\* was added to it: 100 for block 1, then the least proof valid with
\* respect to the proof before.
RECURSIVE ProofOfBlock(_)
ProofOfBlock(k) == IF k = 1 THEN 100 ELSE LeastProof(ProofOfBlock(k - 1))

\* C20 (proofs independent of content, requests one after another): the
\* proof of block k is a function of k alone, the same in every run
\* whatever entries were added and whatever the timestamps and hashes of
\* the blocks are, so any two runs with the same number of mines show the
\* same sequence of proofs.
C20_ProofsIgnoreContent ==
    \A k \in 1..Len(chain) : chain[k].proof = ProofOfBlock(k)

\* Two blocks were mined, the first of them holding an entry and stamped
\* after the clock moved.
C20_Witness ==
    /\ Len(chain) = 3
    /\ EntriesAt(2) # <<>>
    /\ chain[2].timestamp > 0
    /\ chain[3].proof # chain[2].proof

====
